---- MODULE Spec2Model ----
(***************************************************************************)
(* Model of src/src/App.tsx: the AI Chess Match page.                      *)
(*                                                                         *)
(* The state is the component's React state (position, the configuration   *)
(* fields, isLoading, thinking, gameFinished, currentTrivia, gameStarted,  *)
(* movesHistory), the single mutable Chess instance `game`, the fetches    *)
(* in flight and the playMoves closures (cursor i, captured move list,     *)
(* pending setTimeout).  Every event-loop task of the page is one action:  *)
(* a click on Start or Reset, an edit of a configuration field, the        *)
(* settling of the fetch, the firing of a replay timer, a trivia tick.     *)
(*                                                                         *)
(* Strings that the code slices (move codes, the max-turns text) are       *)
(* sequences of one-character strings.  JavaScript values that may be      *)
(* undefined or NaN are records carrying a tag, so that every variable     *)
(* keeps one shape.                                                        *)
(***************************************************************************)
EXTENDS Integers, Sequences, FiniteSets, TLC

VARIABLES
    game,           \* the Chess instance of line 22 (mutated in place)
    position,       \* useState(game.fen()), line 23
    whiteModel,     \* line 24
    blackModel,     \* line 25
    whiteKey,       \* line 26
    blackKey,       \* line 27
    maxTurns,       \* line 28
    isLoading,      \* line 29
    thinking,       \* line 30
    gameFinished,   \* line 31
    currentTrivia,  \* line 32
    gameStarted,    \* line 33
    movesHistory,   \* line 34
    moveThrows,     \* whether the installed chess.js raises on an illegal move
    fetches,        \* startGame invocations suspended at the await of line 73/88
    replays,        \* playMoves closures of lines 92-112: cursor, list, timer
    requests,       \* number of network requests issued so far
    updates         \* setPosition calls made by replay steps of the current match

vars == <<game, position, whiteModel, blackModel, whiteKey, blackKey, maxTurns,
          isLoading, thinking, gameFinished, currentTrivia, gameStarted,
          movesHistory, moveThrows, fetches, replays, requests, updates>>

configVars == <<whiteModel, blackModel, whiteKey, blackKey, maxTurns>>

-----------------------------------------------------------------------------
(* Bounds of the model *)

\* longest move list a response carries
MaxMoves == 3

\* number of times Start is clicked in one behaviour
MaxStarts == 2

\* longest move list a response carries while the configuration is edited
MaxMovesConfig == 1

-----------------------------------------------------------------------------
(* Program constants *)

providers == {"OpenAI", "Claude", "Gemini", "Mixtral"}

\* chessTrivia.length
TriviaLen == 10

\* useState(5) of maxTurns
DefaultMaxTurns == 5

ReadyMsg == "Agents are getting ready..."
FailedMsg == "Failed to load moves."
WhiteMsg == "White is thinking..."
BlackMsg == "Black is thinking..."

\* API keys the user may type (free-form text; two representatives)
Keys == {"", "sk-1"}

-----------------------------------------------------------------------------
(* JavaScript values *)

Num(n) == [nan |-> FALSE, n |-> n]
NaN == [nan |-> TRUE, n |-> 0]

Arr(s) == [isArray |-> TRUE, items |-> s]
Undefined == [isArray |-> FALSE, items |-> <<>>]

Min(a, b) == IF a < b THEN a ELSE b

\* String.prototype.slice(a, b) for 0 <= a <= b, on a sequence of characters
Slice(s, a, b) == SubSeq(s, a + 1, Min(b, Len(s)))

Digits == {"0", "1", "2", "3", "4", "5", "6", "7", "8", "9"}

DigitValue(ch) ==
    CASE ch = "0" -> 0 [] ch = "1" -> 1 [] ch = "2" -> 2 [] ch = "3" -> 3
      [] ch = "4" -> 4 [] ch = "5" -> 5 [] ch = "6" -> 6 [] ch = "7" -> 7
      [] ch = "8" -> 8 [] ch = "9" -> 9

\* the longest prefix of s made of digits
RECURSIVE DigitPrefix(_)
DigitPrefix(s) ==
    IF s = <<>> \/ Head(s) \notin Digits THEN <<>>
    ELSE <<Head(s)>> \o DigitPrefix(Tail(s))

\* the decimal value of a sequence of digits
RECURSIVE DecimalValue(_)
DecimalValue(d) ==
    IF d = <<>> THEN 0
    ELSE 10 * DecimalValue(SubSeq(d, 1, Len(d) - 1)) + DigitValue(d[Len(d)])

\* parseInt(text): optional sign, then the leading digits; NaN without a digit
ParseInt(s) ==
    LET signed == s # <<>> /\ Head(s) \in {"-", "+"}
        rest == IF signed THEN Tail(s) ELSE s
        d == DigitPrefix(rest)
    IN  IF d = <<>> THEN NaN
        ELSE IF signed /\ Head(s) = "-" THEN Num(0 - DecimalValue(d))
        ELSE Num(DecimalValue(d))

\* Math.max(a, b): NaN when either argument is NaN
MathMax(a, b) ==
    IF a.nan \/ b.nan THEN NaN
    ELSE IF a.n >= b.n THEN a ELSE b

\* JSON.stringify of a number: NaN is serialised as null
JsonNumber(v) == [null |-> v.nan, n |-> v.n]

-----------------------------------------------------------------------------
(* The max-turns field: an <input type="number">, which delivers either the *)
(* empty string (the field is empty or its text is no number) or the text   *)
(* of a number.  The texts tried: empty, "0", "3" and "-3".                 *)

FieldValues == {<<>>, <<"0">>, <<"3">>, <<"-", "3">>}

-----------------------------------------------------------------------------
(* The rules engine (chess.js), restricted to the squares the modelled     *)
(* move codes touch.  A position is the piece on each of these squares and *)
(* the side to move.                                                       *)

e2 == <<"e", "2">>
e4 == <<"e", "4">>
e5 == <<"e", "5">>
e7 == <<"e", "7">>
f3 == <<"f", "3">>
g1 == <<"g", "1">>

Squares == {e2, e4, e5, e7, f3, g1}

\* the move codes a response may carry
MoveCodes == {e2 \o e4, e7 \o e5, g1 \o f3}

\* the piece moves possible between the modelled squares
PieceMoves == {<<"P", e2, e4>>, <<"p", e7, e5>>, <<"N", g1, f3>>}

\* new Chess() / game.reset()
StartPosition ==
    [board |-> [s \in Squares |->
                   IF s = e2 THEN "P" ELSE IF s = e7 THEN "p"
                   ELSE IF s = g1 THEN "N" ELSE "."],
     turn |-> "w"]

Colour(p) == IF p \in {"P", "N"} THEN "w" ELSE "b"

\* whether game.move({from, to, promotion: 'q'}) is legal in g
LegalMove(g, from, to) ==
    /\ from \in Squares
    /\ to \in Squares
    /\ g.board[from] # "."
    /\ Colour(g.board[from]) = g.turn
    /\ <<g.board[from], from, to>> \in PieceMoves
    /\ g.board[to] = "."

\* the engine after a legal move
MakeMove(g, from, to) ==
    [board |-> [s \in Squares |->
                   IF s = from THEN "." ELSE IF s = to THEN g.board[from]
                   ELSE g.board[s]],
     turn |-> IF g.turn = "w" THEN "b" ELSE "w"]

\* game.fen(): the squares from rank 8 down to rank 1, then the side to move
Fen(g) ==
    <<g.board[e7], g.board[e5], g.board[e4], g.board[f3], g.board[e2],
      g.board[g1], g.turn>>

\* the engine after game.move on a code, when the call returns
\* (an illegal move leaves the engine as it is)
ApplyCode(g, code) ==
    IF LegalMove(g, Slice(code, 0, 2), Slice(code, 2, 4))
    THEN MakeMove(g, Slice(code, 0, 2), Slice(code, 2, 4))
    ELSE g

-----------------------------------------------------------------------------
(* Responses *)

RECURSIVE ListsOfLen(_)
ListsOfLen(n) ==
    IF n = 0 THEN {<<>>}
    ELSE {<<c>> \o l : c \in MoveCodes, l \in ListsOfLen(n - 1)}

MoveLists(max) == UNION {ListsOfLen(n) : n \in 0..max}

-----------------------------------------------------------------------------
(* What the render of lines 122-244 derives from the state *)

\* a Start button that is never disabled
StartNeverDisabled == FALSE

\* disabled={isLoading} of the Start button, line 191
StartDisabled == isLoading

\* a Reset button rendered whatever the state
ResetAlwaysShown == TRUE

\* {gameFinished && (<button onClick={resetGame}>)}, line 197
ResetShown == gameFinished

\* {gameFinished && movesHistory.length > 0 && ...}, line 219
MoveLogShown == gameFinished /\ Len(movesHistory.items) > 0

\* formatMove with the two squares exchanged
FormatMoveSwapped(move) == Slice(move, 2, 4) \o <<"-">> \o Slice(move, 0, 2)

\* formatMove, lines 57-61
FormatMove(move) == Slice(move, 0, 2) \o <<"-">> \o Slice(move, 2, 4)

\* one entry of the Game Moves panel, line 230:
\* {index + 1}. {index % 2 === 0 ? 'White' : 'Black'}: {formatMove(move)}
MoveLogEntry(index, move) ==
    <<index + 1, IF index % 2 = 0 THEN "White" ELSE "Black", FormatMove(move)>>

\* movesHistory.map(...), lines 223-232
MoveLog ==
    [k \in 1..Len(movesHistory.items) |->
        MoveLogEntry(k - 1, movesHistory.items[k])]

\* an effect that forgets the !gameStarted test
TriviaRunningWhileLoading == isLoading

\* the condition under which the effect of lines 36-46 keeps an interval
TriviaRunning == isLoading /\ ~gameStarted

-----------------------------------------------------------------------------
Init ==
    /\ game = StartPosition
    /\ position = Fen(StartPosition)
    /\ whiteModel = "OpenAI"
    /\ blackModel = "OpenAI"
    /\ whiteKey = ""
    /\ blackKey = ""
    /\ maxTurns = Num(DefaultMaxTurns)
    /\ isLoading = FALSE
    /\ thinking = ""
    /\ gameFinished = FALSE
    /\ currentTrivia = 0
    /\ gameStarted = FALSE
    /\ movesHistory = Arr(<<>>)
    /\ moveThrows \in BOOLEAN
    /\ fetches = {}
    /\ replays = {}
    /\ requests = 0
    /\ updates = 0

-----------------------------------------------------------------------------
(* The configuration panel, lines 131-185 *)

SetWhiteModel(p) ==
    /\ whiteModel' = p
    /\ UNCHANGED <<game, position, blackModel, whiteKey, blackKey, maxTurns,
                   isLoading, thinking, gameFinished, currentTrivia, gameStarted,
                   movesHistory, moveThrows, fetches, replays, requests, updates>>

SetBlackModel(p) ==
    /\ blackModel' = p
    /\ UNCHANGED <<game, position, whiteModel, whiteKey, blackKey, maxTurns,
                   isLoading, thinking, gameFinished, currentTrivia, gameStarted,
                   movesHistory, moveThrows, fetches, replays, requests, updates>>

SetWhiteKey(k) ==
    /\ whiteKey' = k
    /\ UNCHANGED <<game, position, whiteModel, blackModel, blackKey, maxTurns,
                   isLoading, thinking, gameFinished, currentTrivia, gameStarted,
                   movesHistory, moveThrows, fetches, replays, requests, updates>>

SetBlackKey(k) ==
    /\ blackKey' = k
    /\ UNCHANGED <<game, position, whiteModel, blackModel, whiteKey, maxTurns,
                   isLoading, thinking, gameFinished, currentTrivia, gameStarted,
                   movesHistory, moveThrows, fetches, replays, requests, updates>>

\* the value onChange stores: Math.max(1, parseInt(e.target.value)), line 183
ClampTurns(text) == MathMax(Num(1), ParseInt(text))

SetMaxTurns(text) ==
    /\ maxTurns' = ClampTurns(text)
    /\ UNCHANGED <<game, position, whiteModel, blackModel, whiteKey, blackKey,
                   isLoading, thinking, gameFinished, currentTrivia, gameStarted,
                   movesHistory, moveThrows, fetches, replays, requests, updates>>

-----------------------------------------------------------------------------
(* The trivia rotator, lines 36-46 *)

\* a tick that also rewrites the status text
TriviaTickTouchesThinking ==
    /\ TriviaRunning
    /\ currentTrivia' = (currentTrivia + 1) % TriviaLen
    /\ thinking' = ""
    /\ UNCHANGED <<game, position, configVars, isLoading, gameFinished,
                   gameStarted, movesHistory, moveThrows, fetches, replays,
                   requests, updates>>

TriviaTick ==
    /\ TriviaRunning
    /\ currentTrivia' = (currentTrivia + 1) % TriviaLen
    /\ UNCHANGED <<game, position, configVars, isLoading, thinking, gameFinished,
                   gameStarted, movesHistory, moveThrows, fetches, replays,
                   requests, updates>>

-----------------------------------------------------------------------------
(* resetGame, lines 48-55; the button exists only while ResetShown *)

\* resetGame without game.reset() (line 49)
ResetGameKeepsBoard ==
    /\ ResetShown
    /\ game' = game
    /\ position' = Fen(game')
    /\ gameFinished' = FALSE
    /\ thinking' = ""
    /\ gameStarted' = FALSE
    /\ movesHistory' = Arr(<<>>)
    /\ UNCHANGED <<configVars, isLoading, currentTrivia, moveThrows, fetches,
                   replays, requests, updates>>

ResetGame ==
    /\ ResetShown
    /\ game' = StartPosition
    /\ position' = Fen(game')
    /\ gameFinished' = FALSE
    /\ thinking' = ""
    /\ gameStarted' = FALSE
    /\ movesHistory' = Arr(<<>>)
    /\ UNCHANGED <<configVars, isLoading, currentTrivia, moveThrows, fetches,
                   replays, requests, updates>>

-----------------------------------------------------------------------------
(* startGame, lines 63-120 *)

\* a request body with the two API keys exchanged
RequestBodyKeysSwapped ==
    [white_model |-> whiteModel, black_model |-> blackModel,
     white_api_key |-> blackKey, black_api_key |-> whiteKey,
     max_turns |-> JsonNumber(maxTurns)]

\* the request body of lines 79-85
RequestBody ==
    [white_model |-> whiteModel, black_model |-> blackModel,
     white_api_key |-> whiteKey, black_api_key |-> blackKey,
     max_turns |-> JsonNumber(maxTurns)]

\* startGame without game.reset() (line 69)
StartGameKeepsBoard ==
    /\ ~StartDisabled
    /\ requests < MaxStarts
    /\ isLoading' = TRUE
    /\ thinking' = ReadyMsg
    /\ gameFinished' = FALSE
    /\ gameStarted' = FALSE
    /\ movesHistory' = Arr(<<>>)
    /\ game' = game
    /\ position' = Fen(game')
    /\ requests' = requests + 1
    /\ fetches' = fetches \cup {[id |-> requests + 1, body |-> RequestBody]}
    /\ updates' = 0
    /\ UNCHANGED <<configVars, currentTrivia, moveThrows, replays>>

\* startGame without setGameFinished(false) (line 66)
StartGameKeepsFinished ==
    /\ ~StartDisabled
    /\ requests < MaxStarts
    /\ isLoading' = TRUE
    /\ thinking' = ReadyMsg
    /\ gameFinished' = gameFinished
    /\ gameStarted' = FALSE
    /\ movesHistory' = Arr(<<>>)
    /\ game' = StartPosition
    /\ position' = Fen(game')
    /\ requests' = requests + 1
    /\ fetches' = fetches \cup {[id |-> requests + 1, body |-> RequestBody]}
    /\ updates' = 0
    /\ UNCHANGED <<configVars, currentTrivia, moveThrows, replays>>

\* startGame without setMovesHistory([]) (line 68)
StartGameKeepsHistory ==
    /\ ~StartDisabled
    /\ requests < MaxStarts
    /\ isLoading' = TRUE
    /\ thinking' = ReadyMsg
    /\ gameFinished' = FALSE
    /\ gameStarted' = FALSE
    /\ movesHistory' = movesHistory
    /\ game' = StartPosition
    /\ position' = Fen(game')
    /\ requests' = requests + 1
    /\ fetches' = fetches \cup {[id |-> requests + 1, body |-> RequestBody]}
    /\ updates' = 0
    /\ UNCHANGED <<configVars, currentTrivia, moveThrows, replays>>

\* lines 64-86: the click on Start, up to the suspension at the await
StartGame ==
    /\ ~StartDisabled
    /\ requests < MaxStarts
    /\ isLoading' = TRUE
    /\ thinking' = ReadyMsg
    /\ gameFinished' = FALSE
    /\ gameStarted' = FALSE
    /\ movesHistory' = Arr(<<>>)
    /\ game' = StartPosition
    /\ position' = Fen(game')
    /\ requests' = requests + 1
    /\ fetches' = fetches \cup {[id |-> requests + 1, body |-> RequestBody]}
    /\ updates' = 0
    /\ UNCHANGED <<configVars, currentTrivia, moveThrows, replays>>

\* a catch block without setIsLoading(false)
CatchKeepsLoading ==
    /\ thinking' = FailedMsg
    /\ isLoading' = isLoading

\* the catch block, lines 115-119
Catch ==
    /\ thinking' = FailedMsg
    /\ isLoading' = FALSE

\* the test of line 96 stopping one move early
PlayMovesStopsEarly(i, moves) == i + 1 < Len(moves)

\* the test of line 96 running one step past the end of the list
PlayMovesRunsOver(i, moves) == i <= Len(moves)

\* the test of line 96
PlayMovesContinue(i, moves) == i < Len(moves)

\* playMoves naming the sides the other way round (line 97)
PlayMovesWrongSide(old, id, i, moves) ==
    IF PlayMovesContinue(i, moves)
    THEN /\ thinking' = IF i % 2 = 0 THEN BlackMsg ELSE WhiteMsg
         /\ replays' = (replays \ old) \cup
                          {[id |-> id, i |-> i, moves |-> moves, pending |-> TRUE]}
         /\ UNCHANGED <<isLoading, gameFinished>>
    ELSE /\ thinking' = ""
         /\ isLoading' = FALSE
         /\ gameFinished' = TRUE
         /\ replays' = replays \ old

\* playMoves, lines 95-112, called with cursor i by the closure `id`;
\* `old` is that closure's record before the call
PlayMoves(old, id, i, moves) ==
    IF PlayMovesContinue(i, moves)
    THEN /\ thinking' = IF i % 2 = 0 THEN WhiteMsg ELSE BlackMsg
         /\ replays' = (replays \ old) \cup
                          {[id |-> id, i |-> i, moves |-> moves, pending |-> TRUE]}
         /\ UNCHANGED <<isLoading, gameFinished>>
    ELSE /\ thinking' = ""
         /\ isLoading' = FALSE
         /\ gameFinished' = TRUE
         /\ replays' = replays \ old

\* fetch rejects, response.json() rejects, or the body is null: the throw
\* happens before line 90
FetchRejects(f) ==
    /\ f \in fetches
    /\ fetches' = fetches \ {f}
    /\ Catch
    /\ UNCHANGED <<game, position, configVars, gameFinished, currentTrivia,
                   gameStarted, movesHistory, moveThrows, replays, requests,
                   updates>>

\* the body parses but has no move_history: lines 89-93 run with moves
\* undefined, and moves.length at line 96 throws into the catch block
ResponseNoList(f) ==
    /\ f \in fetches
    /\ fetches' = fetches \ {f}
    /\ movesHistory' = Undefined
    /\ gameStarted' = TRUE
    /\ Catch
    /\ UNCHANGED <<game, position, configVars, gameFinished, currentTrivia,
                   moveThrows, replays, requests, updates>>

\* the body carries the move list: lines 88-114
ResponseMoves(f, moves) ==
    /\ f \in fetches
    /\ fetches' = fetches \ {f}
    /\ movesHistory' = Arr(moves)
    /\ gameStarted' = TRUE
    /\ PlayMoves({}, f.id, 0, moves)
    /\ UNCHANGED <<game, position, configVars, currentTrivia, moveThrows,
                   requests, updates>>

\* whether the callback of lines 100-106 throws: moves[i] is undefined (slice
\* of undefined), or the move is illegal and the engine raises on illegality
StepThrows(r) ==
    \/ ~(r.i < Len(r.moves))
    \/ /\ moveThrows
       /\ ~LegalMove(game, Slice(r.moves[r.i + 1], 0, 2),
                     Slice(r.moves[r.i + 1], 2, 4))

\* the setTimeout callback of lines 100-106, when it runs to its end
TimerFires(r) ==
    /\ r \in replays
    /\ r.pending
    /\ ~StepThrows(r)
    /\ game' = ApplyCode(game, r.moves[r.i + 1])
    /\ position' = Fen(game')
    /\ updates' = updates + 1
    /\ PlayMoves({r}, r.id, r.i + 1, r.moves)
    /\ UNCHANGED <<configVars, currentTrivia, gameStarted, movesHistory,
                   moveThrows, fetches, requests>>

\* the setTimeout callback when line 102 throws: nothing after it runs, no
\* further timer is scheduled and nothing catches the exception
TimerThrows(r) ==
    /\ r \in replays
    /\ r.pending
    /\ StepThrows(r)
    /\ replays' = (replays \ {r}) \cup {[r EXCEPT !.pending = FALSE]}
    /\ UNCHANGED <<game, position, configVars, isLoading, thinking, gameFinished,
                   currentTrivia, gameStarted, movesHistory, moveThrows, fetches,
                   requests, updates>>

-----------------------------------------------------------------------------
(* Specifications *)

Rejects == \E f \in fetches : FetchRejects(f)
NoList == \E f \in fetches : ResponseNoList(f)
Responds == \E f \in fetches, m \in MoveLists(MaxMoves) : ResponseMoves(f, m)
Fires == \E r \in replays : TimerFires(r)
Throws == \E r \in replays : TimerThrows(r)

\* the match life cycle, with the configuration left at its defaults
Next ==
    \/ StartGame
    \/ ResetGame
    \/ TriviaTick
    \/ Rejects
    \/ NoList
    \/ Responds
    \/ Fires
    \/ Throws

Spec == Init /\ [][Next]_vars

EditsConfig ==
    \/ \E p \in providers : SetWhiteModel(p)
    \/ \E p \in providers : SetBlackModel(p)
    \/ \E k \in Keys : SetWhiteKey(k)
    \/ \E k \in Keys : SetBlackKey(k)
    \/ \E t \in FieldValues : SetMaxTurns(t)

RespondsShort ==
    \E f \in fetches, m \in MoveLists(MaxMovesConfig) : ResponseMoves(f, m)

\* the configuration panel edited at any time around the matches
NextConfig ==
    \/ EditsConfig
    \/ StartGame
    \/ ResetGame
    \/ Rejects
    \/ NoList
    \/ RespondsShort
    \/ Fires
    \/ Throws

SpecConfig == Init /\ [][NextConfig]_vars

-----------------------------------------------------------------------------
(* The match life cycle as the state shows it *)

Idle == ~isLoading /\ ~gameFinished
Fetching == isLoading /\ ~gameStarted
Replaying == isLoading /\ gameStarted
Finished == ~isLoading /\ gameFinished

\* the cursors of the replays under way
Cursors == {r.i : r \in replays}

PendingReplays == {r \in replays : r.pending}

\* the engine after game.move on moves[0..n-1], from the starting position
RECURSIVE Replayed(_, _)
Replayed(moves, n) ==
    IF n = 0 THEN StartPosition
    ELSE ApplyCode(Replayed(moves, n - 1), moves[n])

-----------------------------------------------------------------------------
(* C1: a replay of a list of N moves makes one position update per delayed *)
(* step; while a step is pending the number of updates made is the cursor  *)
(* and is below N; the match is Finished only with exactly N updates made, *)
(* and the updates never exceed N.                                         *)
C1_ExactlyNUpdates ==
    /\ (gameStarted /\ movesHistory.isArray) => updates <= Len(movesHistory.items)
    /\ gameFinished => (movesHistory.isArray /\ updates = Len(movesHistory.items))
    /\ \A r \in replays :
          r.pending => (updates = r.i /\ r.i < Len(r.moves) /\ ~gameFinished)

C1_Witness == gameFinished /\ updates = MaxMoves

(* C2: after the network call fails, the page is not loading, the          *)
(* completion flag is false, the status text is the failure message, no    *)
(* replay step has run or is pending for that match, and no request is in  *)
(* flight.                                                                 *)
C2_FailureEndsLoading ==
    thinking = FailedMsg =>
        /\ ~isLoading
        /\ ~gameFinished
        /\ updates = 0
        /\ replays = {}
        /\ fetches = {}
        /\ position = Fen(StartPosition)

C2_Witness == thinking = FailedMsg /\ ~gameStarted /\ requests = 1

(* C3 as stated: the only changes of life-cycle state are Idle -> Fetching, *)
(* Fetching -> Replaying(0), Replaying(c) -> Replaying(c+1),                *)
(* Replaying(length) -> Finished and Finished -> Idle.  Replaying(length)   *)
(* is passed inside the task that makes the last update (or that receives   *)
(* an empty list), so those tasks count as the two transitions together.    *)
StatedStep ==
    \/ Idle /\ Idle'
    \/ Fetching /\ Fetching'
    \/ Finished /\ Finished'
    \/ Replaying /\ Replaying' /\ Cursors' = Cursors
    \/ Idle /\ Fetching'
    \/ Fetching /\ Replaying' /\ Cursors' = {0}
    \/ Replaying /\ Replaying' /\ Cursors' = {c + 1 : c \in Cursors}
    \/ Replaying /\ Finished' /\ \A r \in replays : r.i + 1 = Len(r.moves)
    \/ Fetching /\ Finished' /\ movesHistory' = Arr(<<>>)
    \/ Finished /\ Idle'

C3_OnlyStatedTransitions == [][StatedStep]_vars

(* C3 as amended: besides the stated transitions there are Fetching -> Idle *)
(* with the failure message shown (the fetch failed or the response has no  *)
(* move list) and Finished -> Fetching (Start clicked without a reset).     *)
C3_LifecycleTransitions ==
    [][\/ StatedStep
       \/ Fetching /\ Idle' /\ thinking' = FailedMsg
       \/ Finished /\ Fetching']_vars

C3_Witness == Idle /\ thinking = FailedMsg /\ requests = 2

(* C4: at most one replay timer is pending, at most one match is under way *)
(* (a fetch in flight or a pending step), and while one is the Start       *)
(* button is disabled.                                                     *)
C4_SingleReplay ==
    /\ Cardinality(PendingReplays) <= 1
    /\ Cardinality(fetches) + Cardinality(PendingReplays) <= 1
    /\ (fetches # {} \/ PendingReplays # {}) => StartDisabled

C4_Witness == requests = 2 /\ \E r \in replays : r.pending /\ r.i = 1

(* C5: the cursor of a replay lies in 0..length, the engine holds the      *)
(* starting position with moves [0, cursor) applied in order and the       *)
(* displayed position is its encoding (at Finished the cursor is the       *)
(* length; before a list is received it is 0); a cursor only ever moves    *)
(* forward by one.                                                         *)
C5_CursorAndPosition ==
    /\ [](/\ \A r \in replays :
                /\ 0 <= r.i /\ r.i <= Len(r.moves)
                /\ game = Replayed(r.moves, r.i)
                /\ position = Fen(Replayed(r.moves, r.i))
          /\ gameFinished =>
                position = Fen(Replayed(movesHistory.items,
                                        Len(movesHistory.items)))
          /\ (replays = {} /\ ~gameFinished) => position = Fen(StartPosition))
    /\ [][\A r \in replays : \A q \in replays' :
             q.id = r.id => (q.i = r.i \/ q.i = r.i + 1)]_vars

C5_Witness ==
    \E r \in replays : r.pending /\ r.i = 2 /\ position # Fen(StartPosition)

(* C6: a step that leaves Finished for Idle (resetGame) leaves the engine  *)
(* and the displayed position at the starting position, the recorded move  *)
(* list empty, the completion and game-started flags false and the         *)
(* thinking text empty.                                                    *)
C6_ResetRestoresStart ==
    [][(Finished /\ Idle') =>
          /\ game' = StartPosition
          /\ position' = Fen(StartPosition)
          /\ movesHistory' = Arr(<<>>)
          /\ ~gameFinished'
          /\ ~gameStarted'
          /\ thinking' = ""]_vars

C6_Witness ==
    /\ Idle /\ thinking = "" /\ updates > 0
    /\ game = StartPosition /\ movesHistory = Arr(<<>>)

(* C7: the trivia index is always in 0..TriviaLen-1, and it changes only   *)
(* while the page is loading and replay has not started, by +1 modulo the  *)
(* length of the list.                                                     *)
C7_TriviaIndex ==
    /\ [](currentTrivia \in 0..(TriviaLen - 1))
    /\ [][currentTrivia' # currentTrivia =>
             /\ isLoading /\ ~gameStarted
             /\ currentTrivia' = (currentTrivia + 1) % TriviaLen]_vars

C7_Witness == currentTrivia = TriviaLen - 1 /\ isLoading /\ gameStarted

(* C8: once an empty move list has been received the match is Finished at  *)
(* once: no state has the empty list received and a replay under way; the  *)
(* thinking text is empty, loading has ended and no update was made.       *)
C8_EmptyListFinishes ==
    (gameStarted /\ movesHistory = Arr(<<>>)) =>
        /\ gameFinished
        /\ ~isLoading
        /\ thinking = ""
        /\ updates = 0
        /\ replays = {}

C8_Witness == gameStarted /\ movesHistory = Arr(<<>>) /\ gameFinished

(* C9: the stored max-turn count is a number not below 1, and so is the    *)
(* max_turns of every request sent.                                        *)
C9_MaxTurnsAtLeastOne ==
    /\ ~maxTurns.nan /\ maxTurns.n >= 1
    /\ \A f \in fetches : ~f.body.max_turns.null /\ f.body.max_turns.n >= 1

(* C10: whenever the Reset button or the move log is rendered the          *)
(* completion flag is true and the match is neither Fetching nor           *)
(* Replaying; the move log is rendered only for a non-empty recorded list. *)
C10_CompletionUnlocks ==
    /\ (ResetShown \/ MoveLogShown) =>
          (gameFinished /\ ~Fetching /\ ~Replaying /\ fetches = {}
             /\ PendingReplays = {})
    /\ MoveLogShown => (movesHistory.isArray /\ Len(movesHistory.items) > 0)

C10_Witness == ResetShown /\ MoveLogShown /\ Len(movesHistory.items) = 2

(* C11: when a replay of a list of four-character codes ends, the         *)
(* recorded move list is the received list, the move log is shown, and its *)
(* entry k is "k. White: ff-tt" for odd k and "k. Black: ff-tt" for even   *)
(* k, ff and tt being the first two and the last two characters of the     *)
(* k-th code.                                                              *)
C11_MoveLogEntries ==
    [][\A r \in replays :
          (r.pending /\ ~gameFinished /\ gameFinished') =>
             /\ movesHistory' = Arr(r.moves)
             /\ MoveLogShown'
             /\ DOMAIN MoveLog' = 1..Len(r.moves)
             /\ \A k \in 1..Len(r.moves) :
                   MoveLog'[k] =
                      <<k, IF k % 2 = 1 THEN "White" ELSE "Black",
                        <<r.moves[k][1], r.moves[k][2], "-",
                          r.moves[k][3], r.moves[k][4]>> >>]_vars

C11_Witness ==
    /\ gameFinished
    /\ movesHistory = Arr(<<e2 \o e4, e7 \o e5, g1 \o f3>>)
    /\ MoveLog = << <<1, "White", <<"e", "2", "-", "e", "4">> >>,
                    <<2, "Black", <<"e", "7", "-", "e", "5">> >>,
                    <<3, "White", <<"g", "1", "-", "f", "3">> >> >>

(* C12: while the delayed step for cursor i is pending the thinking text   *)
(* names White for even i and Black for odd i; no replay rests at the end  *)
(* of its list, and once the match is complete the thinking text is empty. *)
C12_ThinkingIndicator ==
    /\ \A r \in replays :
          /\ r.pending =>
                thinking = (IF r.i % 2 = 0 THEN WhiteMsg ELSE BlackMsg)
          /\ r.i < Len(r.moves)
    /\ gameFinished => (thinking = "" /\ replays = {})

C12_Witness == \E r \in replays : r.pending /\ r.i = 1 /\ thinking = BlackMsg

(* C13: the only steps that issue a request are clicks on Start, each      *)
(* issuing exactly one, whose body holds the five configuration values of  *)
(* that moment; every other step (failure, response, reset, timer, edits)  *)
(* leaves the request count as it is and adds no request.                  *)
C13_OneRequestPerStart ==
    [][/\ (~isLoading /\ isLoading') <=> (requests' = requests + 1)
       /\ requests' # requests =>
             /\ requests' = requests + 1
             /\ fetches' = fetches \cup
                   {[id |-> requests',
                     body |-> [white_model |-> whiteModel,
                               black_model |-> blackModel,
                               white_api_key |-> whiteKey,
                               black_api_key |-> blackKey,
                               max_turns |-> [null |-> maxTurns.nan,
                                              n |-> maxTurns.n]]]}
       /\ requests' = requests => fetches' \subseteq fetches]_vars

C13_Witness ==
    \E f \in fetches :
        /\ f.id = 2
        /\ f.body.white_model = "Claude" /\ f.body.black_api_key = "sk-1"
        /\ f.body.max_turns.n = 3
        /\ whiteModel = "Gemini" /\ blackKey = ""

(* C14: while the fetch of a match is outstanding the engine and the       *)
(* displayed position are the starting position, the recorded move list is *)
(* empty, the completion and game-started flags are false and isLoading is *)
(* true.                                                                   *)
C14_ResetBeforeFetch ==
    fetches # {} =>
        /\ game = StartPosition
        /\ position = Fen(StartPosition)
        /\ movesHistory = Arr(<<>>)
        /\ ~gameFinished
        /\ ~gameStarted
        /\ isLoading
        /\ replays = {}

C14_Witness == fetches # {} /\ requests = 2 /\ thinking = ReadyMsg

(* C15: a step that changes the trivia index changes nothing else of the   *)
(* match: position, engine, cursors, recorded list, thinking text, flags   *)
(* and the requests in flight are as before.                               *)
C15_TriviaFrame ==
    [][currentTrivia' # currentTrivia =>
          UNCHANGED <<position, game, replays, movesHistory, thinking,
                      isLoading, gameStarted, gameFinished, fetches,
                      requests, updates>>]_vars

C15_Witness == currentTrivia = 3 /\ fetches # {} /\ thinking = ReadyMsg

(* C16: a match that is loading can still leave the loading state: the    *)
(* network call or a delayed step is outstanding, so that with the call    *)
(* settling and the timers firing isLoading becomes false.                 *)
C16_LoadingCanEnd ==
    isLoading => (fetches # {} \/ PendingReplays # {})

(* C17: while a delayed step is pending no startGame and no resetGame has  *)
(* run since it was scheduled: the step belongs to the latest match, Start *)
(* is disabled, Reset is not rendered, the engine holds the moves before   *)
(* the cursor, and the recorded move list is the list being replayed.      *)
C17_NoStaleStep ==
    \A r \in replays :
        r.pending =>
            /\ r.id = requests
            /\ StartDisabled
            /\ ~ResetShown
            /\ gameStarted
            /\ movesHistory = Arr(r.moves)
            /\ game = Replayed(r.moves, r.i)

C17_Witness ==
    \E r \in replays : r.pending /\ r.id = 2 /\ r.i = 2 /\ game # StartPosition

(* C18: gameFinished implies isLoading false, gameStarted true and an      *)
(* empty thinking text; gameStarted implies that a response carrying a     *)
(* move list was received for the current match.                           *)
C18_FlagInvariant ==
    /\ gameFinished => (~isLoading /\ gameStarted /\ thinking = "")
    /\ gameStarted => movesHistory.isArray

====
